---- MODULE Spec2Model ----
(***************************************************************************)
(* Model of qiskit/aqua/algorithms/many_sample/eoh/eoh.py: the EOH         *)
(* (Evolution of Hamiltonian) algorithm object.  One EOH object is         *)
(* constructed (__init__ / _validate_eoh), its circuit is built            *)
(* (construct_circuit) and it is run (_run) against a bound quantum        *)
(* instance.  Collaborators (initial state, operators, quantum instance)   *)
(* are opaque: each call either returns or raises.                         *)
(***************************************************************************)
EXTENDS Integers, Sequences, FiniteSets, TLC

VARIABLES
    args,           \* arguments of the __init__ call (evolution parameters)
    obj,            \* the EOH object: construction status, error, assigned fields
    convCalls,      \* op_converter.to_weighted_pauli_operator calls made so far
    dictHeap,       \* dict objects; obj.ret is the index of self._ret
    circHeap,       \* QuantumCircuit objects (index = identity, value = gates)
    prepKind,       \* initial state hands back a "fresh" or its "stored" fragment
    is_statevector, \* quantum_instance.is_statevector of the bound backend
    th,             \* per caller: position in _run and its locals
    nruns,          \* number of run() calls started
    evals,          \* run id -> pair returned by evaluate_with_result (or NoPair)
    held,           \* run id -> dict reference returned to the caller (0 = none)
    built           \* circuit references returned by direct construct_circuit calls

vars == <<args, obj, convCalls, dictHeap, circHeap, prepKind, is_statevector,
          th, nruns, evals, held, built>>

----------------------------------------------------------------------------
(* Bounds *)

MaxParam == 1       \* evo_time, num_time_slices in -1..MaxParam
MaxRuns == 2        \* run() calls per behaviour
MaxBuilds == 2      \* direct construct_circuit() calls per behaviour
MaxVal == 2         \* evaluate_with_result yields values in 1..MaxVal

Callers == {"A", "B"}
MainCaller == "A"

TimeValues == -1..MaxParam
SliceValues == -1..MaxParam
ModeValues == {"trotter", "suzuki", "magnus"}
OrderValues == 0..(MaxParam + 1)
Vals == 1..MaxVal

----------------------------------------------------------------------------
(* Construction: EOH.__init__ and EOH._validate_eoh *)

Args == [evo_time : TimeValues, num_time_slices : SliceValues,
         expansion_mode : ModeValues, expansion_order : OrderValues]

DefaultArgs == [evo_time |-> 1, num_time_slices |-> 1,
                expansion_mode |-> "trotter", expansion_order |-> 1]

NoError == [param |-> "", value |-> ""]

\* AquaError('<param> value {}. ...'.format(value)): the message names the
\* parameter and carries the formatted rejected value.
AquaError(param, value) == [param |-> param, value |-> value]

\* Variant: evo_time = 0 is rejected (<= for <).  C1 must tell it apart.
validate_eoh_strict(a) ==
    IF a.evo_time <= 0
    THEN AquaError("Evo time", ToString(a.evo_time))
    ELSE IF a.num_time_slices < 0
    THEN AquaError("Num time slices", ToString(a.num_time_slices))
    ELSE IF a.expansion_mode \notin {"trotter", "suzuki"}
    THEN AquaError("Expansion Mode", a.expansion_mode)
    ELSE IF a.expansion_order < 1
    THEN AquaError("Expansion order", ToString(a.expansion_order))
    ELSE NoError

\* Variant: the same four checks, expansion_order first.  C2 must tell it apart.
validate_eoh_reordered(a) ==
    IF a.expansion_order < 1
    THEN AquaError("Expansion order", ToString(a.expansion_order))
    ELSE IF a.evo_time < 0
    THEN AquaError("Evo time", ToString(a.evo_time))
    ELSE IF a.num_time_slices < 0
    THEN AquaError("Num time slices", ToString(a.num_time_slices))
    ELSE IF a.expansion_mode \notin {"trotter", "suzuki"}
    THEN AquaError("Expansion Mode", a.expansion_mode)
    ELSE NoError

validate_eoh(a) ==
    IF a.evo_time < 0
    THEN AquaError("Evo time", ToString(a.evo_time))
    ELSE IF a.num_time_slices < 0
    THEN AquaError("Num time slices", ToString(a.num_time_slices))
    ELSE IF a.expansion_mode \notin {"trotter", "suzuki"}
    THEN AquaError("Expansion Mode", a.expansion_mode)
    ELSE IF a.expansion_order < 1
    THEN AquaError("Expansion order", ToString(a.expansion_order))
    ELSE NoError

FieldNames == {"_operator", "_initial_state", "_evo_operator", "_evo_time",
               "_num_time_slices", "_expansion_mode", "_expansion_order", "_ret"}

\* The object before __init__ has assigned anything.
BlankObj == [state |-> "new", error |-> NoError, assigned |-> {},
             evo_time |-> 0, num_time_slices |-> 0,
             expansion_mode |-> "", expansion_order |-> 0, ret |-> 0]

EmptyDict == [k \in {} |-> 0]

\* Variant: the operators are converted and stored before the parameters
\* are validated.  C3 must tell it apart.
EOH_init_late(a, dicts) ==
    LET e == validate_eoh(a) IN
    IF e # NoError
    THEN [obj |-> [BlankObj EXCEPT !.state = "raised", !.error = e,
                                   !.assigned = {"_operator", "_initial_state",
                                                 "_evo_operator"}],
          conv |-> 2, dicts |-> dicts]
    ELSE [obj |-> [state |-> "ready", error |-> NoError, assigned |-> FieldNames,
                   evo_time |-> a.evo_time,
                   num_time_slices |-> a.num_time_slices,
                   expansion_mode |-> a.expansion_mode,
                   expansion_order |-> a.expansion_order,
                   ret |-> Len(dicts) + 1],
          conv |-> 2, dicts |-> Append(dicts, EmptyDict)]

\* __init__ run to its end on a blank object: the object, the number of
\* op_converter calls it made and the dict heap (self._ret = {} allocates).
EOH_init(a, dicts) ==
    LET e == validate_eoh(a) IN
    IF e # NoError
    THEN [obj |-> [BlankObj EXCEPT !.state = "raised", !.error = e],
          conv |-> 0, dicts |-> dicts]
    ELSE [obj |-> [state |-> "ready", error |-> NoError, assigned |-> FieldNames,
                   evo_time |-> a.evo_time,
                   num_time_slices |-> a.num_time_slices,
                   expansion_mode |-> a.expansion_mode,
                   expansion_order |-> a.expansion_order,
                   ret |-> Len(dicts) + 1],
          conv |-> 2, dicts |-> Append(dicts, EmptyDict)]

----------------------------------------------------------------------------
(* Circuits: construct_circuit *)

PrepFragment == << <<"prepare", 0, 0, "", 0>> >>

\* self._evo_operator.evolve(...) with the five keyword arguments of the call.
Evolve(o) == << <<"evolve", o.evo_time, o.num_time_slices,
                  o.expansion_mode, o.expansion_order>> >>

\* The circuit object the initial state keeps when it hands back a stored one.
StoredRef == 1

\* self._initial_state.construct_circuit('circuit', quantum_registers)
Prepare(heap, kind) ==
    IF kind = "stored"
    THEN [heap |-> heap, ref |-> StoredRef]
    ELSE [heap |-> Append(heap, PrepFragment), ref |-> Len(heap) + 1]

\* qc += fragment: QuantumCircuit.__iadd__ extends the object in place.
IAdd(heap, ref, fragment) == [heap EXCEPT ![ref] = @ \o fragment]

Call(op, ok) == [op |-> op, ok |-> ok]

\* One call of construct_circuit; prepOk / evoOk tell whether the initial
\* state and the evolution routine return (TRUE) or raise (FALSE).  When
\* evolve raises, qc is dropped unextended (a fresh fragment becomes
\* unreachable, a stored one was not touched), so the heap is as before.
construct_circuit(heap, kind, o, prepOk, evoOk) ==
    IF ~prepOk
    THEN [raised |-> TRUE, heap |-> heap, qc |-> 0,
          calls |-> <<Call("initial_state.construct_circuit", FALSE)>>]
    ELSE LET p == Prepare(heap, kind) IN
         IF ~evoOk
         THEN [raised |-> TRUE, heap |-> heap, qc |-> 0,
               calls |-> <<Call("initial_state.construct_circuit", TRUE),
                           Call("evo_operator.evolve", FALSE)>>]
         ELSE [raised |-> FALSE, heap |-> IAdd(p.heap, p.ref, Evolve(o)),
               qc |-> p.ref,
               calls |-> <<Call("initial_state.construct_circuit", TRUE),
                           Call("evo_operator.evolve", TRUE)>>]

----------------------------------------------------------------------------
(* Locals of one run *)

NoPair == <<0, 0>>
NoWrapped == [wave |-> <<>>, statevector_mode |-> FALSE]

IdleLocals == [pc |-> "idle", rid |-> 0, qc |-> 0,
               wrapped |-> NoWrapped, exec_arg |-> NoWrapped,
               cec_flag |-> FALSE, ewr_flag |-> FALSE,
               pair |-> NoPair, log |-> <<>>, snap |-> EmptyDict]

\* Variant: d.setdefault(k, v), an existing key keeps its value.  C5 must
\* tell it apart.
DictSet_setdefault(d, k, v) ==
    [x \in (DOMAIN d) \cup {k} |-> IF x \in DOMAIN d THEN d[x] ELSE v]

\* d[k] = v on a dict
DictSet(d, k, v) == [x \in (DOMAIN d) \cup {k} |-> IF x = k THEN v ELSE d[x]]

Resting(t) == th[t].pc \in {"idle", "done", "raised"}

----------------------------------------------------------------------------
(* Initial states *)

\* Before EOH(...) is called; the initial state and the backend exist.
Init ==
    /\ args = DefaultArgs
    /\ obj = BlankObj
    /\ convCalls = 0
    /\ dictHeap = <<>>
    /\ circHeap = <<PrepFragment>>
    /\ prepKind \in {"fresh", "stored"}
    /\ is_statevector \in BOOLEAN
    /\ th = [t \in Callers |-> IdleLocals]
    /\ nruns = 0
    /\ evals = <<>>
    /\ held = <<>>
    /\ built = <<>>

\* Arguments the constructed instances of the usage specifications were
\* built with: the defaults of __init__ and the accepted boundary values.
BoundaryArgs == [evo_time |-> 0, num_time_slices |-> 0,
                 expansion_mode |-> "suzuki", expansion_order |-> 1]
ReadyArgs == {DefaultArgs, BoundaryArgs}

\* After EOH(operator, initial_state, evo_operator, ...) has returned.
InitReady ==
    /\ args \in ReadyArgs
    /\ obj = EOH_init(args, <<>>).obj
    /\ convCalls = EOH_init(args, <<>>).conv
    /\ dictHeap = EOH_init(args, <<>>).dicts
    /\ circHeap = <<PrepFragment>>
    /\ prepKind \in {"fresh", "stored"}
    /\ is_statevector \in BOOLEAN
    /\ th = [t \in Callers |-> IdleLocals]
    /\ nruns = 0
    /\ evals = <<>>
    /\ held = <<>>
    /\ built = <<>>

----------------------------------------------------------------------------
(* Actions *)

\* EOH(operator, initial_state, evo_operator, a.evo_time, ...)
Construct ==
    /\ obj.state = "new"
    /\ \E a \in Args :
         LET r == EOH_init(a, dictHeap) IN
         /\ args' = a
         /\ obj' = r.obj
         /\ convCalls' = convCalls + r.conv
         /\ dictHeap' = r.dicts
    /\ UNCHANGED <<circHeap, prepKind, is_statevector, th, nruns, evals, held, built>>

\* A caller's direct construct_circuit() while no run is in progress.
BuildCircuit ==
    /\ obj.state = "ready"
    /\ \A t \in Callers : Resting(t)
    /\ Len(built) < MaxBuilds
    /\ \E prepOk \in BOOLEAN, evoOk \in BOOLEAN :
         LET r == construct_circuit(circHeap, prepKind, obj, prepOk, evoOk) IN
         /\ circHeap' = r.heap
         /\ built' = IF r.raised THEN built ELSE Append(built, r.qc)
    /\ UNCHANGED <<args, obj, convCalls, dictHeap, prepKind, is_statevector,
                   th, nruns, evals, held>>

\* Variant: _run begins by emptying the result dict.  C7 must tell it apart.
RunStart_reset(t) ==
    /\ obj.state = "ready"
    /\ Resting(t)
    /\ nruns < MaxRuns
    /\ nruns' = nruns + 1
    /\ th' = [th EXCEPT ![t] = [IdleLocals EXCEPT !.pc = "construct_circuit",
                                                  !.rid = nruns + 1,
                                                  !.snap = dictHeap[obj.ret]]]
    /\ dictHeap' = [dictHeap EXCEPT ![obj.ret] = EmptyDict]
    /\ evals' = Append(evals, NoPair)
    /\ held' = Append(held, 0)
    /\ UNCHANGED <<args, obj, convCalls, circHeap, prepKind,
                   is_statevector, built>>

\* run() enters _run.
RunStart(t) ==
    /\ obj.state = "ready"
    /\ Resting(t)
    /\ nruns < MaxRuns
    /\ nruns' = nruns + 1
    /\ th' = [th EXCEPT ![t] = [IdleLocals EXCEPT !.pc = "construct_circuit",
                                                  !.rid = nruns + 1,
                                                  !.snap = dictHeap[obj.ret]]]
    /\ evals' = Append(evals, NoPair)
    /\ held' = Append(held, 0)
    /\ UNCHANGED <<args, obj, convCalls, dictHeap, circHeap, prepKind,
                   is_statevector, built>>

\* qc = self.construct_circuit()
RunConstructCircuit(t) ==
    /\ th[t].pc = "construct_circuit"
    /\ \E prepOk \in BOOLEAN, evoOk \in BOOLEAN :
         LET r == construct_circuit(circHeap, prepKind, obj, prepOk, evoOk) IN
         /\ circHeap' = r.heap
         /\ th' = [th EXCEPT ![t].log = @ \o r.calls,
                             ![t].qc = r.qc,
                             ![t].pc = IF r.raised THEN "raised"
                                       ELSE "construct_evaluation_circuit"]
    /\ UNCHANGED <<args, obj, convCalls, dictHeap, prepKind, is_statevector,
                   nruns, evals, held, built>>

\* qc_with_op = self._operator.construct_evaluation_circuit(
\*     wave_function=qc, statevector_mode=self._quantum_instance.is_statevector)
RunEvaluationCircuit(t) ==
    /\ th[t].pc = "construct_evaluation_circuit"
    /\ \E ok \in BOOLEAN :
         th' = [th EXCEPT
                  ![t].log = Append(@, Call("operator.construct_evaluation_circuit", ok)),
                  ![t].cec_flag = is_statevector,
                  ![t].wrapped = IF ok THEN [wave |-> circHeap[th[t].qc],
                                             statevector_mode |-> is_statevector]
                                 ELSE @,
                  ![t].pc = IF ok THEN "execute" ELSE "raised"]
    /\ UNCHANGED <<args, obj, convCalls, dictHeap, circHeap, prepKind,
                   is_statevector, nruns, evals, held, built>>

\* Variant: a failed execute is retried once.  C10 must tell it apart.
RunExecute_retry(t) ==
    /\ th[t].pc = "execute"
    /\ \E ok1 \in BOOLEAN, ok2 \in BOOLEAN :
         th' = [th EXCEPT
                  ![t].log = IF ok1
                             THEN Append(@, Call("quantum_instance.execute", TRUE))
                             ELSE @ \o <<Call("quantum_instance.execute", FALSE),
                                         Call("quantum_instance.execute", ok2)>>,
                  ![t].exec_arg = th[t].wrapped,
                  ![t].pc = IF ok1 \/ ok2 THEN "evaluate_with_result" ELSE "raised"]
    /\ UNCHANGED <<args, obj, convCalls, dictHeap, circHeap, prepKind,
                   is_statevector, nruns, evals, held, built>>

\* result = self._quantum_instance.execute(qc_with_op)
RunExecute(t) ==
    /\ th[t].pc = "execute"
    /\ \E ok \in BOOLEAN :
         th' = [th EXCEPT
                  ![t].log = Append(@, Call("quantum_instance.execute", ok)),
                  ![t].exec_arg = th[t].wrapped,
                  ![t].pc = IF ok THEN "evaluate_with_result" ELSE "raised"]
    /\ UNCHANGED <<args, obj, convCalls, dictHeap, circHeap, prepKind,
                   is_statevector, nruns, evals, held, built>>

\* Variant: evaluate_with_result is called without the backend's flag, so
\* with statevector_mode=False.  C4 must tell it apart.
RunEvaluate_default_mode(t) ==
    /\ th[t].pc = "evaluate_with_result"
    /\ \E ok \in BOOLEAN, m \in Vals, s \in Vals :
         /\ th' = [th EXCEPT
                     ![t].log = Append(@, Call("operator.evaluate_with_result", ok)),
                     ![t].ewr_flag = FALSE,
                     ![t].pair = IF ok THEN <<m, s>> ELSE @,
                     ![t].pc = IF ok THEN "store_avg" ELSE "raised"]
         /\ evals' = IF ok THEN [evals EXCEPT ![th[t].rid] = <<m, s>>] ELSE evals
    /\ UNCHANGED <<args, obj, convCalls, dictHeap, circHeap, prepKind,
                   is_statevector, nruns, held, built>>

\* The right-hand side of the assignment: self._operator.evaluate_with_result(
\*     result=result, statevector_mode=self._quantum_instance.is_statevector)
RunEvaluate(t) ==
    /\ th[t].pc = "evaluate_with_result"
    /\ \E ok \in BOOLEAN, m \in Vals, s \in Vals :
         /\ th' = [th EXCEPT
                     ![t].log = Append(@, Call("operator.evaluate_with_result", ok)),
                     ![t].ewr_flag = is_statevector,
                     ![t].pair = IF ok THEN <<m, s>> ELSE @,
                     ![t].pc = IF ok THEN "store_avg" ELSE "raised"]
         /\ evals' = IF ok THEN [evals EXCEPT ![th[t].rid] = <<m, s>>] ELSE evals
    /\ UNCHANGED <<args, obj, convCalls, dictHeap, circHeap, prepKind,
                   is_statevector, nruns, held, built>>

\* self._ret['avg'] = <first element>
RunStoreAvg(t) ==
    /\ th[t].pc = "store_avg"
    /\ dictHeap' = [dictHeap EXCEPT ![obj.ret] = DictSet(@, "avg", th[t].pair[1])]
    /\ th' = [th EXCEPT ![t].pc = "store_std_dev"]
    /\ UNCHANGED <<args, obj, convCalls, circHeap, prepKind, is_statevector,
                   nruns, evals, held, built>>

\* Variant: the first element of the pair is stored under 'std_dev' too.
\* C9 must tell it apart.
RunStoreStdDev_first(t) ==
    /\ th[t].pc = "store_std_dev"
    /\ dictHeap' = [dictHeap EXCEPT ![obj.ret] = DictSet(@, "std_dev", th[t].pair[1])]
    /\ th' = [th EXCEPT ![t].pc = "return"]
    /\ UNCHANGED <<args, obj, convCalls, circHeap, prepKind, is_statevector,
                   nruns, evals, held, built>>

\* self._ret['std_dev'] = <second element>
RunStoreStdDev(t) ==
    /\ th[t].pc = "store_std_dev"
    /\ dictHeap' = [dictHeap EXCEPT ![obj.ret] = DictSet(@, "std_dev", th[t].pair[2])]
    /\ th' = [th EXCEPT ![t].pc = "return"]
    /\ UNCHANGED <<args, obj, convCalls, circHeap, prepKind, is_statevector,
                   nruns, evals, held, built>>

\* return self._ret
RunReturn(t) ==
    /\ th[t].pc = "return"
    /\ held' = [held EXCEPT ![th[t].rid] = obj.ret]
    /\ th' = [th EXCEPT ![t].pc = "done"]
    /\ UNCHANGED <<args, obj, convCalls, dictHeap, circHeap, prepKind,
                   is_statevector, nruns, evals, built>>

RunStep(t) ==
    \/ RunStart(t)
    \/ RunConstructCircuit(t)
    \/ RunEvaluationCircuit(t)
    \/ RunExecute(t)
    \/ RunEvaluate(t)
    \/ RunStoreAvg(t)
    \/ RunStoreStdDev(t)
    \/ RunReturn(t)

\* Construction of one instance.
SpecNew == Init /\ [][Construct]_vars

\* One caller: construct_circuit() and run() calls on a constructed
\* instance, one at a time.
Next ==
    \/ BuildCircuit
    \/ RunStep(MainCaller)

Spec == InitReady /\ [][Next]_vars

\* Two callers run one instance, constructed with the default evolution
\* parameters, with no synchronization.
InitConc ==
    /\ InitReady
    /\ args = DefaultArgs

NextConc == \E t \in Callers : RunStep(t)

SpecConc == InitConc /\ [][NextConc]_vars

----------------------------------------------------------------------------
(* Properties *)

Ret == dictHeap[obj.ret]
Summary(p) == [avg |-> p[1], std_dev |-> p[2]]
Complete(d) == DOMAIN d = {"avg", "std_dev"}
Called(t, op) == \E i \in 1..Len(th[t].log) : th[t].log[i].op = op
Main == th[MainCaller]

ValidArgs(a) ==
    /\ a.evo_time >= 0
    /\ a.num_time_slices >= 0
    /\ a.expansion_mode \in {"trotter", "suzuki"}
    /\ a.expansion_order >= 1

\* C1: construction succeeds exactly when evo_time >= 0, num_time_slices >= 0,
\* expansion_mode is 'trotter' or 'suzuki' and expansion_order >= 1; every
\* other combination raises the parameter error.
C1_ConstructIffValid ==
    obj.state # "new" =>
        /\ obj.state = "ready" <=> ValidArgs(args)
        /\ obj.state = "raised" <=> ~ValidArgs(args)
        /\ obj.state = "raised" <=> obj.error # NoError

\* The three boundary values are accepted together.
C1_Witness ==
    /\ obj.state = "ready"
    /\ args.evo_time = 0
    /\ args.num_time_slices = 0
    /\ args.expansion_order = 1

\* C2: the error of a failed construction names the first failing check in
\* the order evo_time, num_time_slices, expansion_mode, expansion_order and
\* carries that parameter's rejected value.
C2_FirstFailingCheck ==
    obj.state = "raised" =>
        /\ args.evo_time < 0 =>
             obj.error = [param |-> "Evo time", value |-> ToString(args.evo_time)]
        /\ (args.evo_time >= 0 /\ args.num_time_slices < 0) =>
             obj.error = [param |-> "Num time slices",
                          value |-> ToString(args.num_time_slices)]
        /\ (args.evo_time >= 0 /\ args.num_time_slices >= 0
              /\ args.expansion_mode \notin {"trotter", "suzuki"}) =>
             obj.error = [param |-> "Expansion Mode", value |-> args.expansion_mode]
        /\ (args.evo_time >= 0 /\ args.num_time_slices >= 0
              /\ args.expansion_mode \in {"trotter", "suzuki"}) =>
             obj.error = [param |-> "Expansion order",
                          value |-> ToString(args.expansion_order)]

\* All four parameters invalid at once; the error is the evo_time one.
C2_Witness ==
    /\ obj.state = "raised"
    /\ args.evo_time < 0
    /\ args.num_time_slices < 0
    /\ args.expansion_mode \notin {"trotter", "suzuki"}
    /\ args.expansion_order < 1
    /\ obj.error.param = "Evo time"

\* C3: a failed construction has assigned no instance field, allocated no
\* result dict and converted neither operator.
C3_FailedInitTouchesNothing ==
    obj.state = "raised" =>
        /\ obj.assigned = {}
        /\ obj.ret = 0
        /\ dictHeap = <<>>
        /\ convCalls = 0

\* A construction that failed on the last check.
C3_Witness ==
    /\ obj.state = "raised"
    /\ obj.error.param = "Expansion order"

\* C4: in every run the mode flag given to construct_evaluation_circuit and
\* the one given to evaluate_with_result both equal the backend's
\* is_statevector, hence each other.
C4_SameModeFlag ==
    \A t \in Callers :
        /\ Called(t, "operator.construct_evaluation_circuit") =>
             th[t].cec_flag = is_statevector
        /\ Called(t, "operator.evaluate_with_result") =>
             /\ th[t].ewr_flag = is_statevector
             /\ th[t].ewr_flag = th[t].cec_flag
             /\ th[t].exec_arg.statevector_mode = th[t].ewr_flag

\* A completed run on a statevector backend.
C4_Witness ==
    /\ Main.pc = "done"
    /\ is_statevector
    /\ Main.cec_flag /\ Main.ewr_flag

\* C5: when a run() has returned, the stored summary is exactly the avg and
\* std_dev that run evaluated, with no other key and no earlier value.
C5_SummaryIsLatestRun ==
    Main.pc = "done" =>
        /\ Complete(Ret)
        /\ Ret = Summary(evals[Main.rid])

\* A second successful run whose values both differ from the first run's.
C5_Witness ==
    /\ Main.pc = "done"
    /\ Main.rid = 2
    /\ held[1] # 0
    /\ evals[1][1] # evals[2][1]
    /\ evals[1][2] # evals[2][2]

\* C6 (as stated): the summary an earlier run() returned still holds that
\* run's avg and std_dev after a later run() has returned.
C6_EarlierSummaryKept ==
    \A r1 \in 1..Len(held), r2 \in 1..Len(held) :
        (r1 < r2 /\ held[r1] # 0 /\ held[r2] # 0) =>
            dictHeap[held[r1]] = Summary(evals[r1])

\* C7: a run() that raised leaves the stored summary exactly as it was when
\* the run started.
C7_FailureKeepsSummary ==
    Main.pc = "raised" => Ret = Main.snap

\* The result evaluation raised in a run that follows a successful one.
C7_Witness ==
    /\ Main.pc = "raised"
    /\ Len(Main.log) = 5
    /\ Complete(Main.snap)

\* C8 (as stated): every circuit construct_circuit() returned is the
\* preparer's fragment followed by exactly one evolution fragment, and the
\* preparer's stored fragment is left as it was.
C8_BuildTwiceSame ==
    /\ \A i \in 1..Len(built) : circHeap[built[i]] = PrepFragment \o Evolve(obj)
    /\ circHeap[StoredRef] = PrepFragment

Evaluated == {r \in 1..Len(evals) : evals[r] # NoPair}

\* The stored summary pairs the avg of one run with the std_dev of another:
\* no single run evaluated this pair.
Torn ==
    /\ Complete(Ret)
    /\ \E r1 \in Evaluated, r2 \in Evaluated :
         /\ r1 # r2
         /\ Ret.avg = evals[r1][1]
         /\ Ret.std_dev = evals[r2][2]
    /\ \A r \in Evaluated : Ret # Summary(evals[r])

\* C9: with two unsynchronized callers a complete stored summary takes its
\* avg from some run's evaluation and its std_dev from some run's
\* evaluation, but not necessarily from the same run: the torn state of
\* C9_Witness is reachable.
C9_FieldsFromSomeRuns ==
    Complete(Ret) =>
        \E r1 \in Evaluated, r2 \in Evaluated :
            /\ Ret.avg = evals[r1][1]
            /\ Ret.std_dev = evals[r2][2]

\* Both callers have returned and the dict they both hold is torn.
C9_Witness ==
    /\ Torn
    /\ \A t \in Callers : th[t].pc = "done" /\ held[th[t].rid] = obj.ret

RunOrder == <<"initial_state.construct_circuit", "evo_operator.evolve",
              "operator.construct_evaluation_circuit",
              "quantum_instance.execute", "operator.evaluate_with_result">>

\* C10: the collaborator calls of one run are a prefix of the fixed order
\* preparer, evolve, evaluation circuit, execute, evaluate; only the last
\* call made can have failed, and a run that raised ends with the failed
\* call; a run that reached the store made all five calls once each, with
\* execute given the wrapped circuit built from this run's circuit.
C10_StepOrder ==
    \A t \in Callers :
        LET log == th[t].log IN
        /\ Len(log) <= Len(RunOrder)
        /\ \A i \in 1..Len(log) : log[i].op = RunOrder[i]
        /\ \A i \in 1..(Len(log) - 1) : log[i].ok
        /\ th[t].pc = "raised" => (Len(log) >= 1 /\ ~log[Len(log)].ok)
        /\ th[t].pc \in {"store_avg", "store_std_dev", "return", "done"} =>
             /\ Len(log) = Len(RunOrder)
             /\ \A i \in 1..Len(log) : log[i].ok
             /\ th[t].exec_arg = th[t].wrapped
             /\ th[t].wrapped # NoWrapped
        /\ th[t].pc \in {"construct_circuit", "construct_evaluation_circuit",
                         "execute", "evaluate_with_result"} => Ret = th[t].snap

\* A run that returned after all five calls.
C10_Witness ==
    /\ Main.pc = "done"
    /\ Len(Main.log) = 5
    /\ Main.exec_arg.wave # <<>>

====
